---- MODULE Spec2Model ----
(***************************************************************************)
(* A model of the generational arena of src/src/lib.rs: the slot store,    *)
(* its free list, the generation counter, and the operations push, insert, *)
(* remove, take, replace, set and get.                                      *)
(*                                                                         *)
(* Option<X> is modelled as a sequence of length at most one: None is <<>>  *)
(* and Some(x) is <<x>>.  Slot indices are zero-based as in the source; the *)
(* TLA+ sequence `data` is one-based, so slot s lives at data[s + 1].       *)
(***************************************************************************)
EXTENDS Integers, Sequences, FiniteSets

\* Bounds of the exploration.
MaxSlots == 2
MaxGen == 3
MaxItem == 2

Items == 1..MaxItem

None == <<>>
Some(x) == <<x>>

\* enum Entry<T>
Vacant(next) == [tag |-> "Vacant", next |-> next]
Occupied(generation, item) == [tag |-> "Occupied", generation |-> generation, item |-> item]

\* struct Index, built as Index::from_parts(pos, gen) builds it
from_parts(pos, gen) == [generation |-> gen, slot |-> pos]

\* The handles a caller can present: any generation and any slot position,
\* position MaxSlots being past the end of every store explored.
Handles == {from_parts(s, g) : s \in 0..MaxSlots, g \in 1..MaxGen}

\* NonZeroUsize::saturating_add; the counter stays below usize::MAX in every
\* state explored (see MaxGen), so the sum never saturates here.
saturating_add(g, n) == g + n

is_occupied(entry) == entry.tag = "Occupied"
is_vacant(entry) == entry.tag = "Vacant"

\* Arena::new
new == [data |-> <<>>, generation |-> 1, free_head |-> None, count |-> 0]

\* What a call hands back: the arena after the call, the returned handle
\* and value (None where the operation returns neither), and whether the
\* call panicked.
Outcome(self, index, item, halted) ==
    [self |-> self, index |-> index, item |-> item, halted |-> halted]

\* The index expression self.data[index.slot] panics when out of bounds.
InBounds(self, slot) == slot < Len(self.data)

\* Arena::remove
remove_nobump(self, index) ==
    IF ~InBounds(self, index.slot) THEN Outcome(self, None, None, TRUE)
    ELSE LET entry == self.data[index.slot + 1] IN
         IF is_occupied(entry) /\ index.generation = entry.generation
         THEN Outcome([self EXCEPT !.data[index.slot + 1] = Vacant(self.free_head),
                                   !.free_head = Some(index.slot),
                                   !.count = @ - 1],
                      None, None, FALSE)
         ELSE Outcome(self, None, None, FALSE)

remove_nocheck(self, index) ==
    IF ~InBounds(self, index.slot) THEN Outcome(self, None, None, TRUE)
    ELSE LET entry == self.data[index.slot + 1] IN
         IF is_occupied(entry)
         THEN Outcome([self EXCEPT !.data[index.slot + 1] = Vacant(self.free_head),
                                   !.free_head = Some(index.slot),
                                   !.generation = saturating_add(@, 1),
                                   !.count = @ - 1],
                      None, None, FALSE)
         ELSE Outcome(self, None, None, FALSE)

remove(self, index) ==
    IF ~InBounds(self, index.slot) THEN Outcome(self, None, None, TRUE)
    ELSE LET entry == self.data[index.slot + 1] IN
         IF is_occupied(entry) /\ index.generation = entry.generation
         THEN Outcome([self EXCEPT !.data[index.slot + 1] = Vacant(self.free_head),
                                   !.free_head = Some(index.slot),
                                   !.generation = saturating_add(@, 1),
                                   !.count = @ - 1],
                      None, None, FALSE)
         ELSE Outcome(self, None, None, FALSE)

\* Arena::take
take_keep(self, index) ==
    IF ~InBounds(self, index.slot) THEN Outcome(self, None, None, TRUE)
    ELSE LET entry == self.data[index.slot + 1] IN
         IF is_occupied(entry)
         THEN Outcome([self EXCEPT !.generation = saturating_add(@, 1),
                                   !.count = @ - 1],
                      None, Some(entry.item), FALSE)
         ELSE Outcome(self, None, None, FALSE)

take_nobump(self, index) ==
    IF ~InBounds(self, index.slot) THEN Outcome(self, None, None, TRUE)
    ELSE LET entry == self.data[index.slot + 1] IN
         IF is_occupied(entry)
         THEN Outcome([self EXCEPT !.data[index.slot + 1] = Vacant(self.free_head),
                                   !.count = @ - 1],
                      None, Some(entry.item), FALSE)
         ELSE Outcome(self, None, None, FALSE)

take_shift(self, index) ==
    IF ~InBounds(self, index.slot) THEN Outcome(self, None, None, TRUE)
    ELSE LET entry == self.data[index.slot + 1] IN
         IF is_occupied(entry)
         THEN Outcome([self EXCEPT !.data = [i \in 1..(Len(@) - 1) |->
                                                IF i < index.slot + 1 THEN @[i] ELSE @[i + 1]],
                                   !.generation = saturating_add(@, 1),
                                   !.count = @ - 1],
                      None, Some(entry.item), FALSE)
         ELSE Outcome(self, None, None, FALSE)

take(self, index) ==
    IF ~InBounds(self, index.slot) THEN Outcome(self, None, None, TRUE)
    ELSE LET entry == self.data[index.slot + 1] IN
         IF is_occupied(entry)
         THEN Outcome([self EXCEPT !.data[index.slot + 1] = Vacant(self.free_head),
                                   !.generation = saturating_add(@, 1),
                                   !.count = @ - 1],
                      None, Some(entry.item), FALSE)
         ELSE Outcome(self, None, None, FALSE)

\* Arena::push
push(self, item) ==
    LET generation == self.generation
        pos == Len(self.data)
    IN Outcome([self EXCEPT !.data = Append(@, Occupied(generation, item)),
                            !.count = @ + 1],
               Some(from_parts(pos, generation)), None, FALSE)

\* Arena::insert; free_head.take() leaves None in free_head
insert_push(self, item) == push(self, item)

insert(self, item) ==
    IF self.free_head # None
    THEN LET pos == self.free_head[1]
             generation == self.generation
         IN Outcome([self EXCEPT !.free_head = None,
                                 !.data[pos + 1] = Occupied(generation, item),
                                 !.count = @ + 1],
                    Some(from_parts(pos, generation)), None, FALSE)
    ELSE push(self, item)

\* Arena::replace
replace_nobump(self, index, item) ==
    IF ~InBounds(self, index.slot) THEN Outcome(self, None, None, TRUE)
    ELSE LET entry == self.data[index.slot + 1] IN
         IF is_occupied(entry)
         THEN LET generation == self.generation
              IN Outcome([self EXCEPT !.data[index.slot + 1] = Occupied(generation, item),
                                      !.generation = generation],
                         Some(from_parts(index.slot, generation)), Some(entry.item), FALSE)
         ELSE LET generation == self.generation
              IN Outcome([self EXCEPT !.data[index.slot + 1] = Occupied(generation, item),
                                      !.count = @ + 1],
                         Some(from_parts(index.slot, generation)), None, FALSE)

replace_keepstamp(self, index, item) ==
    IF ~InBounds(self, index.slot) THEN Outcome(self, None, None, TRUE)
    ELSE LET entry == self.data[index.slot + 1] IN
         IF is_occupied(entry)
         THEN LET generation == saturating_add(self.generation, 1)
              IN Outcome([self EXCEPT !.data[index.slot + 1] = Occupied(generation, item),
                                      !.generation = generation],
                         Some(from_parts(index.slot, generation)), Some(entry.item), FALSE)
         ELSE LET generation == index.generation
              IN Outcome([self EXCEPT !.data[index.slot + 1] = Occupied(generation, item),
                                      !.count = @ + 1],
                         Some(from_parts(index.slot, generation)), None, FALSE)

replace(self, index, item) ==
    IF ~InBounds(self, index.slot) THEN Outcome(self, None, None, TRUE)
    ELSE LET entry == self.data[index.slot + 1] IN
         IF is_occupied(entry)
         THEN LET generation == saturating_add(self.generation, 1)
              IN Outcome([self EXCEPT !.data[index.slot + 1] = Occupied(generation, item),
                                      !.generation = generation],
                         Some(from_parts(index.slot, generation)), Some(entry.item), FALSE)
         ELSE LET generation == self.generation
              IN Outcome([self EXCEPT !.data[index.slot + 1] = Occupied(generation, item),
                                      !.count = @ + 1],
                         Some(from_parts(index.slot, generation)), None, FALSE)

set_lenient(self, index, item) ==
    IF ~InBounds(self, index.slot) THEN Outcome(self, None, None, FALSE)
    ELSE LET entry == self.data[index.slot + 1] IN
         IF is_occupied(entry)
         THEN LET generation == saturating_add(self.generation, 1)
              IN Outcome([self EXCEPT !.data[index.slot + 1] = Occupied(generation, item),
                                      !.generation = generation],
                         None, None, FALSE)
         ELSE Outcome([self EXCEPT !.data[index.slot + 1] = Occupied(self.generation, item),
                                   !.count = @ + 1],
                      None, None, FALSE)

set_nobump(self, index, item) ==
    IF ~InBounds(self, index.slot) THEN Outcome(self, None, None, TRUE)
    ELSE LET entry == self.data[index.slot + 1] IN
         IF is_occupied(entry)
         THEN Outcome([self EXCEPT !.data[index.slot + 1] = Occupied(self.generation, item)],
                      None, None, FALSE)
         ELSE Outcome([self EXCEPT !.data[index.slot + 1] = Occupied(self.generation, item),
                                   !.count = @ + 1],
                      None, None, FALSE)

\* Arena::set
set(self, index, item) ==
    IF ~InBounds(self, index.slot) THEN Outcome(self, None, None, TRUE)
    ELSE LET entry == self.data[index.slot + 1] IN
         IF is_occupied(entry)
         THEN LET generation == saturating_add(self.generation, 1)
              IN Outcome([self EXCEPT !.data[index.slot + 1] = Occupied(generation, item),
                                      !.generation = generation],
                         None, None, FALSE)
         ELSE Outcome([self EXCEPT !.data[index.slot + 1] = Occupied(self.generation, item),
                                   !.count = @ + 1],
                      None, None, FALSE)

get_nocheck(self, index) ==
    IF InBounds(self, index.slot)
    THEN LET entry == self.data[index.slot + 1] IN
         IF is_occupied(entry)
         THEN Some(entry.item)
         ELSE None
    ELSE None

\* Arena::get
get(self, index) ==
    IF InBounds(self, index.slot)
    THEN LET entry == self.data[index.slot + 1] IN
         IF is_occupied(entry) /\ index.generation = entry.generation
         THEN Some(entry.item)
         ELSE None
    ELSE None

\* Arena::len, Arena::is_empty
len(self) == self.count
is_empty(self) == self.count = 0

\* Arena::get_mut: the same validation as get, on the same slot
get_mut(self, index) ==
    IF InBounds(self, index.slot)
    THEN LET entry == self.data[index.slot + 1] IN
         IF is_occupied(entry) /\ index.generation = entry.generation
         THEN Some(entry.item)
         ELSE None
    ELSE None

get2_mut_eq(self, a, b) ==
    IF a = b THEN Outcome(self, None, None, TRUE)
    ELSE Outcome(self, None, <<get_mut(self, a), get_mut(self, b)>>, FALSE)

\* Arena::get2_mut: assert_ne!(a.slot, b.slot) panics, else the pair of
\* get_mut results
get2_mut(self, a, b) ==
    IF a.slot = b.slot THEN Outcome(self, None, None, TRUE)
    ELSE Outcome(self, None, <<get_mut(self, a), get_mut(self, b)>>, FALSE)

----------------------------------------------------------------------------
(***************************************************************************)
(* The state: the arena, and what its caller has seen.                      *)
(*   arena    the Arena value                                               *)
(*   issued   the handles returned so far, each with the value its call     *)
(*            stored                                                        *)
(*   removed  the handles that were live when passed to remove              *)
(*   last     the latest call: operation, arguments, results, and the       *)
(*            arena it was applied to                                       *)
(*   prev     the call before it, when it vacated a live handle's slot      *)
(***************************************************************************)
VARIABLES arena, issued, removed, last, prev

vars == <<arena, issued, removed, last, prev>>

Call(op, index, item, out, before) ==
    [op |-> op, index |-> index, item |-> item,
     ret_index |-> out.index, ret_item |-> out.item, halted |-> out.halted,
     before |-> before]

\* What is kept of the call before the latest one: whether it was a remove
\* or a take of a live handle, of which handle, and len() before it.
NoVacating == [op |-> "other", index |-> None, len |-> 0]

Vacating(call) ==
    IF /\ call.op \in {"remove", "take"}
       /\ get(call.before, call.index[1]) # None
    THEN [op |-> call.op, index |-> call.index, len |-> len(call.before)]
    ELSE NoVacating

Init ==
    /\ arena = new
    /\ issued = {}
    /\ removed = {}
    /\ last = Call("new", None, None, Outcome(new, None, None, FALSE), new)
    /\ prev = NoVacating

\* The exploration stops growing the store at MaxSlots and the counter at MaxGen.
Explored(self) == Len(self.data) <= MaxSlots /\ self.generation <= MaxGen

\* One call: the arena becomes out.self, a returned handle is remembered
\* with the value the call stored, and the call is recorded.
Apply(op, index, item, out) ==
    /\ Explored(out.self)
    /\ arena' = out.self
    /\ issued' = IF out.index # None
                 THEN issued \cup {[generation |-> out.index[1].generation,
                                    slot |-> out.index[1].slot,
                                    item |-> item[1]]}
                 ELSE issued
    /\ removed' = IF op = "remove" /\ get(arena, index[1]) # None
                  THEN removed \cup {index[1]}
                  ELSE removed
    /\ last' = Call(op, index, item, out, arena)
    /\ prev' = Vacating(last)

Push == \E item \in Items : Apply("push", None, Some(item), push(arena, item))

Insert == \E item \in Items : Apply("insert", None, Some(item), insert(arena, item))

Remove == \E index \in Handles : Apply("remove", Some(index), None, remove(arena, index))

Take == \E index \in Handles : Apply("take", Some(index), None, take(arena, index))

Replace == \E index \in Handles, item \in Items :
    Apply("replace", Some(index), Some(item), replace(arena, index, item))

Set == \E index \in Handles, item \in Items :
    Apply("set", Some(index), Some(item), set(arena, index, item))

Next == Push \/ Insert \/ Remove \/ Take \/ Replace \/ Set

Spec == Init /\ [][Next]_vars

\* Callers that only insert and remove.
NextInsertRemove == Insert \/ Remove

SpecInsertRemove == Init /\ [][NextInsertRemove]_vars

\* Lookups, which take the arena by reference and return what they find.
Get == \E index \in Handles :
    Apply("get", Some(index), None, Outcome(arena, None, get(arena, index), FALSE))

Get2Mut == \E a \in Handles, b \in Handles :
    Apply("get2_mut", <<a, b>>, None, get2_mut(arena, a, b))

\* Callers that insert and remove, and look handles up.
NextLookup == Insert \/ Remove \/ Get \/ Get2Mut

SpecLookup == Init /\ [][NextLookup]_vars

----------------------------------------------------------------------------
(***************************************************************************)
(* Vocabulary of the properties.                                            *)
(***************************************************************************)
HandleOf(r) == from_parts(r.slot, r.generation)

Live(self, index) == get(self, index) # None

OccupiedSlots(self) == {s \in 0..(Len(self.data) - 1) : is_occupied(self.data[s + 1])}

VacantSlots(self) == {s \in 0..(Len(self.data) - 1) : is_vacant(self.data[s + 1])}

\* The slots met when following the links from `link`: the walk ends at
\* None, at a position that is out of range or Occupied (which it lists),
\* or after `fuel` steps.
RECURSIVE Walk(_, _, _)
Walk(self, link, fuel) ==
    IF link = None \/ fuel = 0 THEN <<>>
    ELSE LET s == link[1] IN
         IF ~InBounds(self, s) \/ ~is_vacant(self.data[s + 1]) THEN <<s>>
         ELSE <<s>> \o Walk(self, self.data[s + 1].next, fuel - 1)

\* The free list: the walk from free_head, one step more than there are
\* slots, so that a cycle shows as a repeated slot.
free_list(self) == Walk(self, self.free_head, Len(self.data) + 1)

\* Every slot but `slot` holds the same entry in both arenas, so every
\* handle of another slot resolves alike in both.
OtherSlotsSame(a, b, slot) ==
    /\ Len(a.data) = Len(b.data)
    /\ \A s \in 0..(Len(a.data) - 1) : s # slot => a.data[s + 1] = b.data[s + 1]
    /\ \A k \in Handles : k.slot # slot => get(a, k) = get(b, k)

\* The latest call was `op`, on a handle whose slot is in range.
Called(op) == last.op = op /\ ~last.halted

----------------------------------------------------------------------------
\* C1: a handle returned by push, insert or replace never resolves to
\* another occupant: whenever get(h) yields a value, it is the value stored
\* by the call that returned h.
C1_HandleNeverAliases ==
    \A r \in issued : get(arena, HandleOf(r)) \in {None, Some(r.item)}

\* C2: len() equals the number of Occupied slots, and is_empty() is true
\* exactly when no slot is Occupied.
C2_CountIsOccupied ==
    /\ len(arena) = Cardinality(OccupiedSlots(arena))
    /\ is_empty(arena) <=> OccupiedSlots(arena) = {}

\* C3: once a live handle h has been removed, get(h) is absent in every
\* later state, also after its slot is occupied again, and no handle
\* returned afterwards equals h.
C3_RemovedStaysAbsent ==
    \A h \in removed :
        /\ get(arena, h) = None
        /\ last.ret_index # Some(h)

C3_Witness ==
    \E h \in removed :
        /\ h.slot \in OccupiedSlots(arena)
        /\ last.op \in {"insert", "replace", "set"}
        /\ last.before.data[h.slot + 1].tag = "Vacant"

\* C4: under insert and remove alone, an insert that occupies an existing
\* slot again returns a generation different from that of every handle
\* issued before for that slot.
C4_ReoccupiedStampIsNew ==
    [][(last'.op = "insert" /\ InBounds(arena, last'.ret_index[1].slot))
         => \A r \in issued :
                r.slot = last'.ret_index[1].slot
                    => r.generation # last'.ret_index[1].generation]_vars

C4_Witness ==
    /\ last.op = "insert"
    /\ InBounds(last.before, last.ret_index[1].slot)
    /\ \E r \in issued : /\ r.slot = last.ret_index[1].slot
                         /\ r.generation # last.ret_index[1].generation

\* C5: take(h) with a stale handle (one issued earlier whose slot, in
\* range, is now Vacant or stamped otherwise) returns absent and leaves the
\* arena unchanged.
C5_TakeStaleIsNoop ==
    (/\ Called("take")
     /\ \E r \in issued : HandleOf(r) = last.index[1]
     /\ ~Live(last.before, last.index[1]))
        => /\ last.ret_item = None
           /\ arena = last.before

\* C6: take(h) of a live handle returns the stored value and lowers len()
\* by one, get(h) is absent afterwards and the other slots are untouched;
\* the take(h) right after it returns absent and changes nothing.
C6_TakeOnce ==
    /\ (Called("take") /\ Live(last.before, last.index[1]))
          => /\ last.ret_item = get(last.before, last.index[1])
             /\ len(arena) = len(last.before) - 1
             /\ get(arena, last.index[1]) = None
             /\ OtherSlotsSame(arena, last.before, last.index[1].slot)
    /\ (prev.op = "take" /\ Called("take") /\ last.index = prev.index)
          => /\ last.ret_item = None
             /\ len(arena) = len(last.before)
             /\ len(arena) = prev.len - 1
             /\ arena = last.before
             /\ get(arena, last.index[1]) = None

C6_Witness ==
    /\ prev.op = "take"
    /\ Called("take")
    /\ last.index = prev.index
    /\ last.ret_item = None
    /\ \E k \in Handles : k.slot # last.index[1].slot /\ Live(arena, k)

\* C7: the insert right after take(h) of a live handle reuses h.slot with
\* another generation, does not grow the store, and leaves get(h) absent
\* and get(h2) the inserted value.
C7_InsertAfterTakeReuses ==
    (prev.op = "take" /\ last.op = "insert")
        => /\ last.ret_index[1].slot = prev.index[1].slot
           /\ last.ret_index[1].generation # prev.index[1].generation
           /\ Len(arena.data) = Len(last.before.data)
           /\ get(arena, prev.index[1]) = None
           /\ get(arena, last.ret_index[1]) = last.item

\* C8: the insert right after remove(h) of a live handle reuses h.slot with
\* another generation, len() is back to its value before the remove, get(h)
\* is absent, get(h2) is the inserted value, and the other slots are
\* untouched by both calls.
C8_InsertAfterRemoveReuses ==
    /\ (Called("remove") /\ Live(last.before, last.index[1]))
          => /\ get(arena, last.index[1]) = None
             /\ len(arena) = len(last.before) - 1
             /\ OtherSlotsSame(arena, last.before, last.index[1].slot)
    /\ (prev.op = "remove" /\ last.op = "insert")
          => /\ last.ret_index[1].slot = prev.index[1].slot
             /\ last.ret_index[1].generation # prev.index[1].generation
             /\ len(arena) = prev.len
             /\ get(arena, prev.index[1]) = None
             /\ get(arena, last.ret_index[1]) = last.item
             /\ OtherSlotsSame(arena, last.before, prev.index[1].slot)

C8_Witness ==
    /\ prev.op = "remove"
    /\ last.op = "insert"
    /\ last.ret_index[1].slot = prev.index[1].slot
    /\ \E k \in Handles : k.slot # prev.index[1].slot /\ Live(arena, k)

\* C9: remove(h) on an in-range slot that is Vacant or stamped otherwise
\* changes nothing; so a remove(h) of a handle removed before, whatever
\* happened in between, changes nothing either.
C9_RemoveStaleIsNoop ==
    [][(/\ last'.op = "remove"
        /\ ~last'.halted
        /\ \/ ~Live(arena, last'.index[1])
           \/ last'.index[1] \in removed)
         => /\ arena' = arena
            /\ last'.ret_index = None
            /\ last'.ret_item = None]_vars

C9_Witness ==
    /\ Called("remove")
    /\ last.index[1] \in removed
    /\ ~Live(last.before, last.index[1])
    /\ last.index[1].slot \in OccupiedSlots(last.before)
    /\ arena = last.before

\* C10: replace(h, v) on an Occupied slot, whatever h.generation, returns
\* the previous value and the handle (counter + 1, h.slot); then get(h1) is
\* v, every earlier handle of the slot (h included) is absent, len() is
\* unchanged and the other slots are untouched.
C10_ReplaceOccupied ==
    [][(/\ last'.op = "replace"
        /\ ~last'.halted
        /\ last'.index[1].slot \in OccupiedSlots(arena))
         => LET h == last'.index[1]
                h1 == last'.ret_index[1]
            IN /\ last'.ret_index # None
               /\ h1.slot = h.slot
               /\ h1.generation = arena.generation + 1
               /\ arena'.generation = arena.generation + 1
               /\ last'.ret_item = Some(arena.data[h.slot + 1].item)
               /\ get(arena', h1) = last'.item
               /\ \A r \in issued : r.slot = h.slot => get(arena', HandleOf(r)) = None
               /\ Live(arena, h) => get(arena', h) = None
               /\ len(arena') = len(arena)
               /\ OtherSlotsSame(arena', arena, h.slot)]_vars

C10_Witness ==
    /\ Called("replace")
    /\ last.index[1].slot \in OccupiedSlots(last.before)
    /\ ~Live(last.before, last.index[1])
    /\ \E r \in issued : r.slot = last.index[1].slot /\ HandleOf(r) # last.ret_index[1]
    /\ \E k \in Handles : k.slot # last.index[1].slot /\ Live(arena, k)

\* C11: replace(h, v) with an issued handle h whose slot is now Vacant
\* returns absent and the handle (counter, h.slot), the counter unchanged
\* and different from h.generation; len() grows by one, get(h) stays
\* absent, get(h2) is v and the other slots are untouched.
C11_ReplaceVacant ==
    [][(/\ last'.op = "replace"
        /\ ~last'.halted
        /\ last'.index[1].slot \in VacantSlots(arena)
        /\ \E r \in issued : HandleOf(r) = last'.index[1])
         => LET h == last'.index[1]
                h2 == last'.ret_index[1]
            IN /\ last'.ret_index # None
               /\ last'.ret_item = None
               /\ h2.slot = h.slot
               /\ h2.generation = arena.generation
               /\ arena'.generation = arena.generation
               /\ h2.generation # h.generation
               /\ len(arena') = len(arena) + 1
               /\ get(arena, h) = None
               /\ get(arena', h) = None
               /\ get(arena', h2) = last'.item
               /\ OtherSlotsSame(arena', arena, h.slot)]_vars

C11_Witness ==
    /\ Called("replace")
    /\ last.index[1].slot \in VacantSlots(last.before)
    /\ \E r \in issued : HandleOf(r) = last.index[1]
    /\ last.ret_index # last.index
    /\ \E k \in Handles : k.slot # last.index[1].slot /\ Live(arena, k)

\* C12: get(h) never halts and never changes the arena; it returns the
\* stored value exactly when h.slot is in range, the slot is Occupied and
\* its stamp equals h.generation, and absent otherwise.
C12_GetValidates ==
    last.op = "get"
        => LET h == last.index[1]
               d == last.before.data
               valid == /\ h.slot < Len(d)
                        /\ d[h.slot + 1].tag = "Occupied"
                        /\ d[h.slot + 1].generation = h.generation
           IN /\ ~last.halted
              /\ arena = last.before
              /\ last.ret_index = None
              /\ valid => last.ret_item = Some(d[h.slot + 1].item)
              /\ ~valid => last.ret_item = None

C12_Witness ==
    /\ last.op = "get"
    /\ last.ret_item = None
    /\ last.index[1].slot \in OccupiedSlots(last.before)
    /\ \E k \in Handles : k.slot = last.index[1].slot /\ Live(arena, k)

\* C13: remove, take, replace and set halt exactly when the handle's slot
\* is not below the store length, and then the arena is what it was before
\* the call; push and insert never halt, and count never goes below zero.
C13_OutOfBoundsHalts ==
    /\ last.op \in {"remove", "take", "replace", "set"}
          => /\ last.halted <=> last.index[1].slot >= Len(last.before.data)
             /\ last.halted => /\ arena = last.before
                               /\ last.ret_index = None
                               /\ last.ret_item = None
    /\ last.op \in {"push", "insert"} => ~last.halted
    /\ arena.count >= 0

C13_Witness ==
    /\ last.op = "set"
    /\ last.halted
    /\ last.index[1].slot >= Len(last.before.data)
    /\ OccupiedSlots(arena) # {}

\* C14: get2_mut(a, b) halts exactly when a.slot = b.slot, whatever the
\* generations and the slot's state; otherwise each component is what
\* get_mut returns for that handle alone, and the arena is unchanged.
C14_Get2MutGuard ==
    last.op = "get2_mut"
        => LET a == last.index[1]
               b == last.index[2]
           IN /\ last.halted <=> a.slot = b.slot
              /\ arena = last.before
              /\ last.halted => last.ret_item = None
              /\ ~last.halted => /\ Len(last.ret_item) = 2
                                 /\ last.ret_item[1] = get_mut(last.before, a)
                                 /\ last.ret_item[2] = get_mut(last.before, b)

C14_Witness ==
    /\ last.op = "get2_mut"
    /\ last.halted
    /\ last.index[1].generation # last.index[2].generation
    /\ last.index[1].slot \in OccupiedSlots(arena)

\* C15: free_head is none or the in-range index of a Vacant slot, every
\* link followed from it leads to a Vacant in-range slot, and insert never
\* writes over an Occupied slot nor returns an out-of-range index.
C15_FreeListIsVacant ==
    /\ \A i \in 1..Len(free_list(arena)) :
          /\ InBounds(arena, free_list(arena)[i])
          /\ is_vacant(arena.data[free_list(arena)[i] + 1])
    /\ last.op = "insert"
          => /\ InBounds(arena, last.ret_index[1].slot)
             /\ InBounds(last.before, last.ret_index[1].slot)
                   => is_vacant(last.before.data[last.ret_index[1].slot + 1])

\* C16: the free list from free_head visits every Vacant slot exactly once
\* and ends at none; so insert grows the store only when no slot is Vacant.
C16_FreeListIsComplete ==
    /\ LET fl == free_list(arena)
       IN /\ \A i, j \in 1..Len(fl) : fl[i] = fl[j] => i = j
          /\ {fl[i] : i \in 1..Len(fl)} = VacantSlots(arena)
    /\ (last.op = "insert" /\ Len(arena.data) > Len(last.before.data))
          => VacantSlots(last.before) = {}

\* The latest call vacated or overwrote an occupant.
Overwrote(ops) ==
    /\ last.op \in ops
    /\ ~last.halted
    /\ last.index[1].slot \in OccupiedSlots(last.before)
    /\ last.op = "remove" => Live(last.before, last.index[1])

\* C17 as stated: the counter starts at 1, never decreases, and grows by
\* exactly one on insert into a reused slot, remove of a live handle, take,
\* and replace and set over an Occupied slot; push leaves it unchanged.
C17_BumpOnEveryChange ==
    /\ last.op = "new" => arena.generation = 1
    /\ arena.generation >= last.before.generation
    /\ (last.op = "insert" /\ InBounds(last.before, last.ret_index[1].slot))
          => arena.generation = last.before.generation + 1
    /\ Overwrote({"remove", "take", "replace", "set"})
          => arena.generation = last.before.generation + 1
    /\ last.op = "push" => arena.generation = last.before.generation

\* C17 as amended: the counter starts at 1, never decreases, grows by
\* exactly one on remove of a live handle and on take, replace and set over
\* an Occupied slot, and is unchanged by every other call: push, insert
\* (into a reused slot or a fresh one), replace and set into a Vacant slot.
C17_BumpOnVacateOrOverwrite ==
    /\ last.op = "new" => arena.generation = 1
    /\ arena.generation >= last.before.generation
    /\ Overwrote({"remove", "take", "replace", "set"})
          => arena.generation = last.before.generation + 1
    /\ ~Overwrote({"remove", "take", "replace", "set"})
          => arena.generation = last.before.generation

C17_Witness ==
    /\ last.op = "insert"
    /\ InBounds(last.before, last.ret_index[1].slot)
    /\ arena.generation = last.before.generation
    /\ arena.generation > 1

\* C18: set(h, v) leaves the arena exactly as replace(h, v) does (slots,
\* counter, free list, count), halting when replace halts; after set over
\* an Occupied slot the caller's handle h (one that was live, or issued
\* earlier) no longer validates.
C18_SetIsReplace ==
    last.op = "set"
        => LET h == last.index[1]
               r == replace(last.before, h, last.item[1])
           IN /\ arena = r.self
              /\ last.halted = r.halted
              /\ last.ret_index = None
              /\ last.ret_item = None
              /\ (/\ Overwrote({"set"})
                  /\ \/ Live(last.before, h)
                     \/ \E i \in issued : HandleOf(i) = h)
                    => get(arena, h) = None

C18_Witness ==
    /\ Called("set")
    /\ Live(last.before, last.index[1])
    /\ get(arena, last.index[1]) = None
    /\ arena # last.before

\* C19: remove, take, replace and set leave every slot other than h.slot
\* as it was, so the handles of other slots resolve as before, and no call
\* shortens the store.
C19_SlotsAreStable ==
    /\ Len(arena.data) >= Len(last.before.data)
    /\ (last.op \in {"remove", "take", "replace", "set"} /\ ~last.halted)
          => OtherSlotsSame(arena, last.before, last.index[1].slot)

C19_Witness ==
    /\ Called("take")
    /\ last.ret_item # None
    /\ \E k \in Handles : /\ k.slot > last.index[1].slot
                          /\ Live(arena, k)
                          /\ get(arena, k) = get(last.before, k)

\* C20: every Occupied slot's stamp is at least 1 and at most the counter,
\* and right after remove, take or replace vacates or overwrites an
\* occupant the counter is above that occupant's stamp.
C20_StampsBelowCounter ==
    /\ \A s \in OccupiedSlots(arena) :
          /\ arena.data[s + 1].generation >= 1
          /\ arena.data[s + 1].generation <= arena.generation
    /\ Overwrote({"remove", "take", "replace"})
          => arena.generation > last.before.data[last.index[1].slot + 1].generation

C20_Witness ==
    /\ Overwrote({"remove", "take", "replace"})
    /\ last.before.data[last.index[1].slot + 1].generation = last.before.generation
    /\ last.before.generation > 1

====
